---- MODULE Spec2Model ----
(***************************************************************************)
(* A model of src/student.py, the Student Performance Dashboard.           *)
(*                                                                         *)
(* The program is a Streamlit script: every user interaction (a widget     *)
(* change, a button press, a rerun request) runs the whole script once,    *)
(* from the load of students_data.csv (line 12) to the last button (line   *)
(* 139), unless the run ends earlier: at an exception that nothing caught  *)
(* or at st.stop() (line 61).  One action of this model is one interaction *)
(* together with the whole script run it triggers.                         *)
(*                                                                         *)
(* Text is modelled as a sequence of one-character strings, so that the    *)
(* name search can look inside a name.  A number with decimals (a mean, a  *)
(* rounded mean) is modelled exactly: a mean as a fraction, a rounded mean *)
(* as an integer number of hundredths, and NaN as a value of its own.      *)
(***************************************************************************)
EXTENDS Integers, Sequences, FiniteSets, TLC

VARIABLES
    source,         \* the external file students_data.csv, as it is now
    df,             \* the record set loaded by the last run (line 12 / 23)
    course_filter,  \* the course selectbox's value in the last run (line 30)
    city_filter,    \* the city multiselect's value, as a set (line 34)
    min_marks,      \* the minimum marks slider's value (line 39)
    gender_filter,  \* the gender radio's value (line 45)
    search_name,    \* the search box's text held by the session in the last run (line 121)
    button,         \* the button whose press triggered the last run: "none", "top", "all"
    status,         \* how the last run ended: "load_error", "stopped", "search_error", "done"
    signals,        \* the messages the last run surfaced
    filtered_df,    \* the filtered subset of the last run (lines 51-57)
    metrics,        \* <<>> if the last run computed no metrics, else <<the metrics>> (lines 66-68)
    tier,           \* the performance message of the last run (lines 78-84), or "none"
    search_outcome, \* "none", "found", "not_found" or "error" (lines 122-127)
    result,         \* the table of matching records shown by the search (line 125)
    top_students    \* <<>> if no top performers view was produced, else <<the view>> (line 132)

vars == <<source, df, course_filter, city_filter, min_marks, gender_filter,
          search_name, button, status, signals, filtered_df, metrics, tier,
          search_outcome, result, top_students>>

----------------------------------------------------------------------------
(* Bounds of the model. *)

\* The longest data file of a session whose file never changes.
MaxRecords == 2

\* The longest data file of a session whose file changes between runs.
MaxEnvRecords == 1

----------------------------------------------------------------------------
(* Records. *)

Row(n, c, ci, g, m, a) ==
    [Name |-> n, Course |-> c, City |-> ci, Gender |-> g, Marks |-> m, Attendance |-> a]

\* The mock data of lines 15-23, row by row.
FallbackData ==
    << Row(<<"A","l","i","c","e">>,         "Math",    "New York",    "Female", 95, 98),
       Row(<<"B","o","b">>,                 "Science", "Los Angeles", "Male",   82, 85),
       Row(<<"C","h","a","r","l","i","e">>, "Math",    "New York",    "Male",   78, 76),
       Row(<<"D","a","v","i","d">>,         "English", "Chicago",     "Male",   91, 92),
       Row(<<"E","v","e">>,                 "Science", "Los Angeles", "Female", 65, 60),
       Row(<<"F","i","o","n","a">>,         "Math",    "New York",    "Female", 88, 90),
       Row(<<"G","e","o","r","g","e">>,     "English", "Chicago",     "Male",   72, 75),
       Row(<<"H","a","n","n","a","h">>,     "Science", "Los Angeles", "Female", 98, 99),
       Row(<<"I","a","n">>,                 "Math",    "New York",    "Male",   55, 50),
       Row(<<"J","a","s","m","i","n","e">>, "English", "Chicago",     "Female", 85, 88) >>

\* The rows a data file of the model is made of.  One row has marks of exactly
\* 90, two have more, one has a city that is literally "All".
Pool ==
    { Row(<<"A","n","n">>, "Math",    "New York", "Female", 91, 80),
      Row(<<"N","a","n">>, "Science", "Chicago",  "Male",   95, 85),
      Row(<<"B","o">>,     "Math",    "Chicago",  "Male",   90, 70),
      Row(<<"A","l">>,     "Science", "All",      "Female", 55, 40) }

RECURSIVE SeqsOfLen(_, _)
SeqsOfLen(S, n) ==
    IF n = 0 THEN { <<>> }
    ELSE { Append(s, x) : s \in SeqsOfLen(S, n - 1), x \in S }

SeqsUpTo(S, n) == UNION { SeqsOfLen(S, k) : k \in 0..n }

\* The states of the external file: absent, present but not readable as a
\* table, or a table of rows.
Missing == [kind |-> "missing", rows |-> <<>>]
Unreadable == [kind |-> "unreadable", rows |-> <<>>]
Csv(rows) == [kind |-> "csv", rows |-> rows]

Sources(n) == {Missing, Unreadable} \cup { Csv(s) : s \in SeqsUpTo(Pool, n) }

----------------------------------------------------------------------------
(* Loading, lines 11-23. *)

\* What pd.read_csv raises on the file (line 12).
ReadCsvRaises(src) ==
    CASE src.kind = "missing"    -> "FileNotFoundError"
      [] src.kind = "unreadable" -> "PermissionError"
      [] OTHER                   -> "none"

\* The try / except of lines 11-23: only FileNotFoundError is handled.
Load(src) ==
    LET exc == ReadCsvRaises(src) IN
    IF exc = "none" THEN [raised |-> FALSE, df |-> src.rows, warned |-> FALSE]
    ELSE IF exc = "FileNotFoundError"
         THEN [raised |-> FALSE, df |-> FallbackData, warned |-> TRUE]
         ELSE [raised |-> TRUE, df |-> <<>>, warned |-> FALSE]

----------------------------------------------------------------------------
(* The filter widgets, lines 30-49. *)

\* Series.unique(): the values in order of first appearance.
RECURSIVE Unique(_)
Unique(s) ==
    IF Len(s) = 0 THEN <<>>
    ELSE LET front == Unique(SubSeq(s, 1, Len(s) - 1))
             last == s[Len(s)]
         IN IF \E i \in 1..Len(front) : front[i] = last THEN front
            ELSE Append(front, last)

Column(d, col) == [i \in 1..Len(d) |-> d[i][col]]

CourseOptions(d) == <<"All">> \o Unique(Column(d, "Course"))
CityOptions(d) == <<"All">> \o Unique(Column(d, "City"))
GenderOptions == <<"All", "Male", "Female">>

Range(s) == { s[i] : i \in 1..Len(s) }

\* The slider runs over 0..100 (lines 41-42); the model moves it to these values.
MinMarksChoices == {0, 90}

----------------------------------------------------------------------------
(* Filtering, lines 51-57: four boolean masks applied one after another. *)

\* Lines 52-53.
FilterCourse(f, course) ==
    IF course # "All" THEN SelectSeq(f, LAMBDA r : r.Course = course) ELSE f

\* A city filter in which the option "All" selects every city.
FilterCityAllMatches(f, cities) ==
    IF "All" \in cities THEN f ELSE SelectSeq(f, LAMBDA r : r.City \in cities)

\* Line 54: Series.isin(city_filter).
FilterCity(f, cities) == SelectSeq(f, LAMBDA r : r.City \in cities)

\* A marks filter with a strict bound.
FilterMarksStrict(f, lowest) == SelectSeq(f, LAMBDA r : r.Marks > lowest)

\* Line 55.
FilterMarks(f, lowest) == SelectSeq(f, LAMBDA r : r.Marks >= lowest)

\* Lines 56-57.
FilterGender(f, gender) ==
    IF gender # "All" THEN SelectSeq(f, LAMBDA r : r.Gender = gender) ELSE f

\* Lines 51-57.
ApplyFilters(d, course, cities, lowest, gender) ==
    FilterGender(FilterMarks(FilterCity(FilterCourse(d, course), cities), lowest), gender)

\* A script that never stops on an empty subset.
IsEmptyIgnored(f) == FALSE

\* Line 59: filtered_df.empty.
IsEmpty(f) == Len(f) = 0

----------------------------------------------------------------------------
(* Metrics and tier, lines 66-84. *)

RECURSIVE SumOf(_)
SumOf(s) == IF Len(s) = 0 THEN 0 ELSE s[Len(s)] + SumOf(SubSeq(s, 1, Len(s) - 1))

\* Series.mean(): the sum over the count; NaN, not an exception, over no rows.
Mean(col) == [nan |-> Len(col) = 0, num |-> SumOf(col), den |-> Len(col)]

\* A rounding that cuts the digits after the second decimal.
Round2Truncated(x) ==
    IF x.nan THEN [nan |-> TRUE, v |-> 0]
    ELSE [nan |-> FALSE, v |-> (x.num * 100) \div x.den]

\* round(x, 2) of a mean, in hundredths.  A mean of n integers lies exactly
\* half way between two hundredths only if 8 divides n, and is then a binary
\* fraction that the float holds exactly, so that the tie goes to the even
\* hundredth; below 40 rows no other mean is close enough to a half for the
\* float's error to matter.
Round2(x) ==
    IF x.nan THEN [nan |-> TRUE, v |-> 0]
    ELSE LET q == (x.num * 100) \div x.den
             r == (x.num * 100) % x.den
         IN [nan |-> FALSE,
             v |-> IF 2 * r > x.den THEN q + 1
                   ELSE IF 2 * r < x.den THEN q
                   ELSE IF q % 2 = 0 THEN q ELSE q + 1]

\* Metrics with the two means taken over each other's column.
ComputeMetricsSwapped(f) ==
    [total_students |-> Len(f),
     avg_marks      |-> Round2(Mean(Column(f, "Attendance"))),
     avg_attendance |-> Round2(Mean(Column(f, "Marks")))]

\* Lines 66-68.
ComputeMetrics(f) ==
    [total_students |-> Len(f),
     avg_marks      |-> Round2(Mean(Column(f, "Marks"))),
     avg_attendance |-> Round2(Mean(Column(f, "Attendance")))]

\* Lines 78-84.  A comparison with NaN is false.
TierOf(avg) ==
    IF ~avg.nan /\ avg.v > 8500 THEN "excellent"
    ELSE IF ~avg.nan /\ avg.v >= 7000 THEN "good"
    ELSE "needs_improvement"

----------------------------------------------------------------------------
(* Search by name, lines 121-127. *)

UpperCase == << "A","B","C","D","E","F","G","H","I","J","K","L","M",
                "N","O","P","Q","R","S","T","U","V","W","X","Y","Z" >>
LowerCase == << "a","b","c","d","e","f","g","h","i","j","k","l","m",
                "n","o","p","q","r","s","t","u","v","w","x","y","z" >>

\* str.lower() of one character, as re.IGNORECASE folds it.
LowerOf ==
    [c \in Range(UpperCase) |-> LowerCase[CHOOSE i \in 1..Len(UpperCase) : UpperCase[i] = c]]

Lower(c) == IF c \in DOMAIN LowerOf THEN LowerOf[c] ELSE c

\* The texts typed into the search box: letters, a text no name holds, and
\* punctuation.
Queries == { <<"a","n">>, <<"z">>, <<".">>, <<"(">> }

\* Series.str.contains(pat, case=False, na=False) keeps its default
\* regex=True: the text is compiled as a regular expression with
\* re.IGNORECASE (line 123).  Of the characters of Queries, "(" opens a group
\* that nothing closes, which re.compile refuses with re.error, and "." stands
\* for any character; a letter stands for itself in either case.
RegexRaises(pat) == \E i \in 1..Len(pat) : pat[i] = "("

RegexCharMatches(p, c) == p = "." \/ Lower(p) = Lower(c)

\* re.search: the pattern matches somewhere in the name.
RegexSearch(pat, name) ==
    \E i \in 1..(Len(name) - Len(pat) + 1) :
        \A j \in 1..Len(pat) : RegexCharMatches(pat[j], name[i + j - 1])

\* Line 123, for a pattern that compiles.
SearchByName(d, pat) == SelectSeq(d, LAMBDA r : RegexSearch(pat, r.Name))

----------------------------------------------------------------------------
(* Top performers, line 132. *)

\* The ways to put r into a sequence in non-increasing order of marks so that
\* it stays so.  sort_values sorts with its default kind, quicksort, which
\* does not promise an order among equal marks.
InsertByMarks(s, r) ==
    { SubSeq(s, 1, p) \o <<r>> \o SubSeq(s, p + 1, Len(s)) :
        p \in { k \in 0..Len(s) :
                  /\ \A i \in 1..k : s[i].Marks >= r.Marks
                  /\ \A i \in (k + 1)..Len(s) : s[i].Marks <= r.Marks } }

\* sort_values(by="Marks", ascending=False): every outcome it may have.
RECURSIVE SortByMarksDesc(_)
SortByMarksDesc(s) ==
    IF Len(s) = 0 THEN { <<>> }
    ELSE UNION { InsertByMarks(t, s[Len(s)]) :
                    t \in SortByMarksDesc(SubSeq(s, 1, Len(s) - 1)) }

\* A top performers bound that lets marks of exactly 90 in.
AtLeastNinety(d) == SelectSeq(d, LAMBDA r : r.Marks >= 90)

\* df[df["Marks"] > 90]
AboveNinety(d) == SelectSeq(d, LAMBDA r : r.Marks > 90)

\* Line 132.
TopPerformers(d) == SortByMarksDesc(AboveNinety(d))

----------------------------------------------------------------------------
(* One run of the script. *)

\* What the run before left on the page.  A widget that a run does not reach
\* leaves the page, and the session drops its value: it is back at its
\* default the next time it is drawn.  The filter widgets come before every
\* exit of the script but the failed load; the search box (line 121) comes
\* after st.stop() (line 61) and before the search (line 123); the buttons
\* (lines 131, 138) come after the search.
Fresh == [filters |-> FALSE, search |-> FALSE, df |-> <<>>]

Previous ==
    [filters |-> status # "load_error",
     search  |-> status \in {"search_error", "done"},
     df      |-> df]

\* The defaults of the widgets: the first option of the selectbox (line 30),
\* no city (line 34), value=0 (line 43), the first radio option (line 45), an
\* empty text (line 121).
Defaults ==
    [course |-> "All", cities |-> {}, min_marks |-> 0, gender |-> "All", search |-> <<>>]

\* The values the session holds for the widgets as a run starts: those the
\* browser submits, for the widgets the page had.
Held(prev, sub) ==
    [course    |-> IF prev.filters THEN sub.course ELSE Defaults.course,
     cities    |-> IF prev.filters THEN sub.cities ELSE Defaults.cities,
     min_marks |-> IF prev.filters THEN sub.min_marks ELSE Defaults.min_marks,
     gender    |-> IF prev.filters THEN sub.gender ELSE Defaults.gender,
     search    |-> IF prev.search THEN sub.search ELSE Defaults.search]

\* The values the widget calls of lines 30-49 and 121 return over the loaded
\* data d.  The options of the course and city widgets are computed from d
\* (lines 32, 36); a widget whose options differ from those it was drawn with
\* is another widget, with its default value.
Resolve(prev, d, sub) ==
    LET held == Held(prev, sub) IN
    [held EXCEPT
       !.course = IF prev.filters /\ CourseOptions(d) = CourseOptions(prev.df)
                  THEN held.course ELSE Defaults.course,
       !.cities = IF prev.filters /\ CityOptions(d) = CityOptions(prev.df)
                  THEN held.cities ELSE Defaults.cities]

Outcome(d, w, st, sig, f, m, t, so, res, tops) ==
    [df |-> d, w |-> w, status |-> st, signals |-> sig, filtered_df |-> f,
     metrics |-> m, tier |-> t, search_outcome |-> so, result |-> res, tops |-> tops]

\* Lines 11-139: the run on the file src, after a run that left prev, with the
\* widget values sub submitted by the browser and the button btn pressed.
\* tops holds every value the top performers view may take.
Script(src, prev, sub, btn) ==
    LET ld == Load(src) IN
    IF ld.raised
    THEN \* line 12 raised and nothing caught it
         Outcome(<<>>, Held(prev, sub), "load_error", {}, <<>>, <<>>, "none",
                 "none", <<>>, { <<>> })
    ELSE
    LET d == ld.df
        w == Resolve(prev, d, sub)
        warned == IF ld.warned THEN {"DataUnavailable"} ELSE {}
        f == ApplyFilters(d, w.course, w.cities, w.min_marks, w.gender)
    IN
    IF IsEmpty(f)
    THEN \* lines 59-61
         Outcome(d, w, "stopped", warned \cup {"EmptyFilterResult"}, f, <<>>,
                 "none", "none", <<>>, { <<>> })
    ELSE
    LET m == ComputeMetrics(f)
        t == TierOf(m.avg_marks)
    IN
    IF Len(w.search) > 0 /\ RegexRaises(w.search)
    THEN \* line 123 raised
         Outcome(d, w, "search_error", warned, f, <<m>>, t, "error", <<>>, { <<>> })
    ELSE
    LET searched == Len(w.search) > 0                      \* line 122
        res == IF searched THEN SearchByName(d, w.search) ELSE <<>>
        so == IF ~searched THEN "none"
              ELSE IF Len(res) > 0 THEN "found" ELSE "not_found"   \* line 124
        said == IF so = "not_found" THEN {"NameNotFound"} ELSE {}
    IN
    Outcome(d, w, "done", warned \cup said, f, <<m>>, t, so, res,
            IF btn = "top" THEN { <<ts>> : ts \in TopPerformers(d) } ELSE { <<>> })

----------------------------------------------------------------------------
(* The session. *)

\* The first run of a session: no widget has a value yet.
InitFrom(files) ==
    \E src \in files :
        \E o \in { Script(src, Fresh, Defaults, "none") } :
        /\ source = src
        /\ df = o.df
        /\ course_filter = o.w.course
        /\ city_filter = o.w.cities
        /\ min_marks = o.w.min_marks
        /\ gender_filter = o.w.gender
        /\ search_name = o.w.search
        /\ button = "none"
        /\ status = o.status
        /\ signals = o.signals
        /\ filtered_df = o.filtered_df
        /\ metrics = o.metrics
        /\ tier = o.tier
        /\ search_outcome = o.search_outcome
        /\ result = o.result
        /\ top_students \in o.tops

\* The widget values the browser holds.
Submitted ==
    [course |-> course_filter, cities |-> city_filter, min_marks |-> min_marks,
     gender |-> gender_filter, search |-> search_name]

\* A run of the script on the file as it is now.
Run(sub, btn) ==
    \E o \in { Script(source, Previous, sub, btn) } :
    /\ df' = o.df
    /\ course_filter' = o.w.course
    /\ city_filter' = o.w.cities
    /\ min_marks' = o.w.min_marks
    /\ gender_filter' = o.w.gender
    /\ search_name' = o.w.search
    /\ button' = btn
    /\ status' = o.status
    /\ signals' = o.signals
    /\ filtered_df' = o.filtered_df
    /\ metrics' = o.metrics
    /\ tier' = o.tier
    /\ search_outcome' = o.search_outcome
    /\ result' = o.result
    /\ top_students' \in o.tops
    /\ UNCHANGED source

\* The user picks a course among the options on the page (line 30).
SelectCourse(c) ==
    /\ Previous.filters
    /\ c \in Range(CourseOptions(df))
    /\ c # course_filter
    /\ Run([Submitted EXCEPT !.course = c], "none")

\* The user changes the selection of cities (line 34).
SelectCities(cs) ==
    /\ Previous.filters
    /\ cs \in SUBSET Range(CityOptions(df))
    /\ cs # city_filter
    /\ Run([Submitted EXCEPT !.cities = cs], "none")

\* The user moves the minimum marks slider (line 39).
MoveSlider(m) ==
    /\ Previous.filters
    /\ m \in MinMarksChoices
    /\ m # min_marks
    /\ Run([Submitted EXCEPT !.min_marks = m], "none")

\* The user picks a gender (line 45).
SelectGender(g) ==
    /\ Previous.filters
    /\ g \in Range(GenderOptions)
    /\ g # gender_filter
    /\ Run([Submitted EXCEPT !.gender = g], "none")

\* The user changes the text of the search box (line 121).
EnterSearch(q) ==
    /\ Previous.search
    /\ q \in Queries \cup { <<>> }
    /\ q # search_name
    /\ Run([Submitted EXCEPT !.search = q], "none")

\* The user presses "Show Top Performers" (line 131).
ClickTop ==
    /\ status = "done"
    /\ Run(Submitted, "top")

\* The user presses "Show All Data" (line 138).
ClickAll ==
    /\ status = "done"
    /\ Run(Submitted, "all")

\* The user asks for a rerun of the script.
Rerun == Run(Submitted, "none")

\* The file appears, disappears or changes outside the program.
SourceChange(src) ==
    /\ src # source
    /\ source' = src
    /\ UNCHANGED <<df, course_filter, city_filter, min_marks, gender_filter,
                   search_name, button, status, signals, filtered_df, metrics,
                   tier, search_outcome, result, top_students>>

Interaction ==
    \/ \E c \in Range(CourseOptions(df)) : SelectCourse(c)
    \/ \E cs \in SUBSET Range(CityOptions(df)) : SelectCities(cs)
    \/ \E m \in MinMarksChoices : MoveSlider(m)
    \/ \E g \in Range(GenderOptions) : SelectGender(g)
    \/ \E q \in Queries \cup { <<>> } : EnterSearch(q)
    \/ ClickTop
    \/ ClickAll
    \/ Rerun

\* A session over a file that stays as it is.
Init == InitFrom(Sources(MaxRecords))
Next == Interaction
Spec == Init /\ [][Next]_vars

\* A session over a file that changes between runs.
InitEnv == InitFrom(Sources(MaxEnvRecords))
NextEnv ==
    \/ Interaction
    \/ \E src \in Sources(MaxEnvRecords) : SourceChange(src)
SpecEnv == InitEnv /\ [][NextEnv]_vars

----------------------------------------------------------------------------
(* Properties. *)

Loaded == status # "load_error"

Names(s) == [i \in 1..Len(s) |-> s[i].Name]

Count(s, r) == Cardinality({ i \in 1..Len(s) : s[i] = r })

Hundredths(n) == [nan |-> FALSE, v |-> n]

\* The filter condition of the specification, on one record.
Keeps(r) ==
    /\ course_filter = "All" \/ r.Course = course_filter
    /\ r.City \in city_filter
    /\ r.Marks >= min_marks
    /\ gender_filter = "All" \/ r.Gender = gender_filter

KeptPositions == { i \in 1..Len(df) : Keeps(df[i]) }

\* C1: the filtered subset holds exactly the records of the record set that
\* satisfy the four criteria, each as often as the record set holds it, in the
\* order of the record set: the k-th kept position of df is the k-th record of
\* filtered_df.
C1_FilterExact ==
    Loaded =>
        /\ Len(filtered_df) = Cardinality(KeptPositions)
        /\ \A i \in KeptPositions :
              filtered_df[Cardinality({ k \in KeptPositions : k <= i })] = df[i]

\* A run kept two records or more and dropped some, under a course and a
\* gender criterion.
C1_Witness ==
    /\ status = "done"
    /\ Len(filtered_df) >= 2
    /\ Len(filtered_df) < Len(df)
    /\ course_filter # "All"
    /\ gender_filter # "All"

\* C2: a run whose filtered subset is empty signals EmptyFilterResult and
\* computes no metrics and no tier; metrics are computed only over one record
\* or more, so that no mean is taken over zero records.
C2_NoMetricsOnEmpty ==
    /\ (Loaded /\ Len(filtered_df) = 0) =>
          /\ "EmptyFilterResult" \in signals
          /\ Len(metrics) = 0
          /\ tier = "none"
    /\ Len(metrics) > 0 =>
          /\ Len(filtered_df) >= 1
          /\ metrics[1].total_students >= 1
          /\ ~metrics[1].avg_marks.nan
          /\ ~metrics[1].avg_attendance.nan

\* A run over a record set with records, with cities selected, found nothing.
C2_Witness ==
    /\ status = "stopped"
    /\ Len(df) > 0
    /\ city_filter # {}
    /\ "EmptyFilterResult" \in signals
    /\ Len(metrics) = 0

\* C3: in every run with a text in the search box, whatever the filter
\* criteria, the search outcome is the result of the search over the whole
\* record set: its matches, or NameNotFound.  (Texts on which the search
\* itself fails are C4's.)
C3_SearchWhateverFilters ==
    (Loaded /\ Len(search_name) > 0 /\ ~RegexRaises(search_name)) =>
        /\ result = SearchByName(df, search_name)
        /\ search_outcome = IF Len(result) > 0 THEN "found" ELSE "not_found"

\* Whether name holds text, letter case ignored.
HoldsIgnoringCase(name, text) ==
    \E i \in 1..(Len(name) - Len(text) + 1) :
        \A j \in 1..Len(text) : Lower(text[j]) = Lower(name[i + j - 1])

\* C4: a run that reaches the search with a text in the search box, of any
\* characters, does not abort, and shows exactly the records whose name holds
\* the text, letter case ignored, in the order of the record set, or
\* NameNotFound when there is none.
C4_SearchIsSubstring ==
    (status \in {"search_error", "done"} /\ Len(search_name) > 0) =>
        /\ status = "done"
        /\ result = SelectSeq(df, LAMBDA r : HoldsIgnoringCase(r.Name, search_name))
        /\ search_outcome = IF Len(result) > 0 THEN "found" ELSE "not_found"
        /\ ("NameNotFound" \in signals) = (Len(result) = 0)

\* C5: when the file cannot be loaded, missing or unreadable, the run goes on
\* with the DataUnavailable warning over the ten fallback records; when it can,
\* the record set is the file's rows in their order.
C5_LoadNeverAborts ==
    /\ source.kind # "csv" =>
          /\ Loaded
          /\ "DataUnavailable" \in signals
          /\ df = FallbackData
    /\ source.kind = "csv" =>
          /\ Loaded
          /\ df = source.rows

\* C6: once a run of the session has loaded the record set, every later run
\* works on the same record set, whatever happens to the file in between.
C6_RecordSetFixed ==
    [][(Loaded /\ status' # "load_error") => df' = df]_vars

ScenarioA ==
    /\ df = FallbackData
    /\ course_filter = "Math"
    /\ city_filter = {"New York"}
    /\ min_marks = 0
    /\ gender_filter = "All"

\* C7, as stated: in scenario A the subset is Alice, Charlie and Ian, the
\* average marks are 76.0 and the tier is "good".
C7_ScenarioA_AsStated ==
    ScenarioA =>
        /\ Names(filtered_df) =
              << <<"A","l","i","c","e">>, <<"C","h","a","r","l","i","e">>, <<"I","a","n">> >>
        /\ Len(metrics) = 1
        /\ metrics[1].total_students = 3
        /\ metrics[1].avg_marks = Hundredths(7600)
        /\ tier = "good"

\* C7, amended: in scenario A the subset is Alice, Charlie, Fiona and Ian, the
\* four Math / New York rows, the average marks are 79.0 and the tier is
\* "good".
C7_ScenarioA ==
    ScenarioA =>
        /\ Names(filtered_df) =
              << <<"A","l","i","c","e">>, <<"C","h","a","r","l","i","e">>,
                 <<"F","i","o","n","a">>, <<"I","a","n">> >>
        /\ Len(metrics) = 1
        /\ metrics[1].total_students = 4
        /\ metrics[1].avg_marks = Hundredths(7900)
        /\ tier = "good"

C7_Witness == ScenarioA /\ status = "done" /\ "DataUnavailable" \in signals

ScenarioB ==
    /\ df = FallbackData
    /\ course_filter = "All"
    /\ city_filter = Range(Column(df, "City"))
    /\ min_marks = 90
    /\ gender_filter = "All"

\* C8, as stated: in scenario B the subset is Alice and Hannah, the average
\* marks are 96.5 and the tier is "excellent".
C8_ScenarioB_AsStated ==
    ScenarioB =>
        /\ Names(filtered_df) = << <<"A","l","i","c","e">>, <<"H","a","n","n","a","h">> >>
        /\ Len(metrics) = 1
        /\ metrics[1].total_students = 2
        /\ metrics[1].avg_marks = Hundredths(9650)
        /\ tier = "excellent"

\* C8, amended: in scenario B the subset is Alice (95), David (91) and Hannah
\* (98), the average marks are 94.67 and the tier is "excellent".
C8_ScenarioB ==
    ScenarioB =>
        /\ Names(filtered_df) =
              << <<"A","l","i","c","e">>, <<"D","a","v","i","d">>,
                 <<"H","a","n","n","a","h">> >>
        /\ Len(metrics) = 1
        /\ metrics[1].total_students = 3
        /\ metrics[1].avg_marks = Hundredths(9467)
        /\ tier = "excellent"

C8_Witness == ScenarioB /\ status = "done" /\ Len(filtered_df) = 3

\* C9: a top performers view holds exactly the records of the whole record
\* set with marks above 90, each as often as the record set holds it, whatever
\* the filters keep, in non-increasing order of marks.
C9_TopPerformers ==
    Len(top_students) = 1 =>
        LET top == top_students[1] IN
        /\ \A r \in Range(df) \cup Range(top) :
              Count(top, r) = IF r.Marks > 90 THEN Count(df, r) ELSE 0
        /\ \A i \in 1..Len(top) : \A j \in i..Len(top) : top[i].Marks >= top[j].Marks

\* A view of two records or more, in another order than the record set's, one
\* of which the filters dropped.
C9_Witness ==
    /\ Len(top_students) = 1
    /\ Len(top_students[1]) >= 2
    /\ top_students[1] # AboveNinety(df)
    /\ \E r \in Range(top_students[1]) : r \notin Range(filtered_df)

NoCityNamedAll == \A i \in 1..Len(df) : df[i].City # "All"

\* C10: over a record set in which no city is literally "All", a selection of
\* just "All" leaves an empty subset and the run ends in EmptyFilterResult,
\* and "All" beside other cities adds no record to what those cities select.
C10_AllIsNoCity ==
    (Loaded /\ NoCityNamedAll) =>
        /\ city_filter = {"All"} =>
              /\ Len(filtered_df) = 0
              /\ status = "stopped"
              /\ "EmptyFilterResult" \in signals
        /\ "All" \in city_filter =>
              filtered_df = ApplyFilters(df, course_filter, city_filter \ {"All"},
                                         min_marks, gender_filter)

\* Just "All" is selected over a record set with records.
C10_Witness ==
    /\ Loaded
    /\ NoCityNamedAll
    /\ Len(df) > 0
    /\ city_filter = {"All"}
    /\ status = "stopped"

====
